---- MODULE Spec2Model ----
(***************************************************************************)
(* svglint: the elm rule (src/src/rules/elm.js), the identity rule         *)
(* (src/src/rules/examples/identity.js), the attr rule as its tests        *)
(* (src/unnamed/part_000) and the specification describe it, and the Lint  *)
(* Process / Reporter that run rule instances and derive the verdict.      *)
(***************************************************************************)
EXTENDS Integers, Sequences, FiniteSets, TLC

VARIABLES doc, rules, reporter, status, completions, state, doneCount, transitions

vars == <<doc, rules, reporter, status, completions, state, doneCount, transitions>>

(***************************************************************************)
(* Bounds of the model.                                                    *)
(***************************************************************************)
\* top-level <b/> elements of an elm document
MaxTop == 2
\* <b/> children of the <a> element of an elm document
MaxKids == 2
\* largest count named by a number or range requirement
MaxCount == 2
\* <g> children of the <svg> root of an attr document
MaxGroups == 1
\* rule instances of one Lint Process
MaxRules == 3

(***************************************************************************)
(* Sequence helpers.                                                       *)
(***************************************************************************)
RECURSIVE Flatten(_)
Flatten(ss) == IF ss = <<>> THEN <<>> ELSE Head(ss) \o Flatten(Tail(ss))

Range(s) == {s[i] : i \in 1..Len(s)}

Upto(n) == [i \in 1..n |-> i]

(***************************************************************************)
(* Configuration values.  A JavaScript value is a record with its shape:   *)
(* t is the shape, b the boolean, nums the number(s), strs the string(s).  *)
(***************************************************************************)
Bool(x) == [t |-> "boolean", b |-> x, nums |-> <<>>, strs |-> <<>>]
Num(k) == [t |-> "number", b |-> FALSE, nums |-> <<k>>, strs |-> <<>>]
NumArray(s) == [t |-> "array", b |-> FALSE, nums |-> s, strs |-> <<>>]
Str(x) == [t |-> "string", b |-> FALSE, nums |-> <<>>, strs |-> <<x>>]
StrArray(s) == [t |-> "array", b |-> FALSE, nums |-> <<>>, strs |-> s]
Null == [t |-> "null", b |-> FALSE, nums |-> <<>>, strs |-> <<>>]

\* JavaScript's typeof
TypeOf(v) ==
    CASE v.t = "boolean" -> "boolean"
      [] v.t = "number" -> "number"
      [] v.t = "string" -> "string"
      [] OTHER -> "object"

\* config instanceof Array && config.length === 2
\*   && typeof config[0] === "number" && typeof config[1] === "number"
IsNumberPair(v) == v.t = "array" /\ Len(v.nums) = 2 /\ Len(v.strs) = 0

(***************************************************************************)
(* Documents and the Query Provider.  An element handle is its position in *)
(* document order; parent 0 is the document root.                          *)
(***************************************************************************)
Absent == "absent"

AttrNames == {"role", "id"}

NoAttrs == [n \in AttrNames |-> Absent]

Elm(tag, parent, attrs) == [tag |-> tag, parent |-> parent, attrs |-> attrs]

\* $.find(selector): type selectors, the universal selector and the child
\* combinator 'a > b'
Matches(d, h, selector) ==
    CASE selector = "*" -> TRUE
      [] selector = "a > b" ->
            /\ d[h].tag = "b"
            /\ d[h].parent # 0
            /\ d[d[h].parent].tag = "a"
      [] OTHER -> d[h].tag = selector

Find(d, selector) == SelectSeq(Upto(Len(d)), LAMBDA h : Matches(d, h, selector))

(***************************************************************************)
(* Diagnostics messages: the template and the values it interpolates.      *)
(***************************************************************************)
Msg(kind, text, found, raw) == [kind |-> kind, text |-> text, found |-> found, raw |-> raw]

EmptyMsg == Msg("", "", 0, Null)

Result(elm, message) == [elm |-> elm, message |-> message]

\* the null element of a node-less result
NoElm == 0

(***************************************************************************)
(* src/src/rules/elm.js                                                    *)
(***************************************************************************)
\* variant of CountIs: at least the configured count
CountAtLeast(n, config) == n >= config.nums[1]

\* matches.length === config
CountIs(n, config) == n = config.nums[1]

\* variant of InRange: the bounds excluded
InRangeExclusive(n, config) == n > config.nums[1] /\ n < config.nums[2]

\* matches.length >= config[0] && matches.length <= config[1]
InRange(n, config) == n >= config.nums[1] /\ n <= config.nums[2]

\* the switch of executeRule: the value of `allowed` ("null" when it is left
\* unset), `message`, the node-less entries pushed, and whether it throws
ExecuteSwitch(selector, config, n) ==
    LET typ == TypeOf(config) IN
    CASE typ = "boolean" /\ config.b ->
            [allowed |-> "true", message |-> EmptyMsg, threw |-> FALSE,
             pushed |-> IF n = 0
                        THEN <<Result(NoElm, Msg("ExpectedNoneFound", selector, 0, config))>>
                        ELSE <<>>]
      [] typ = "boolean" /\ ~config.b ->
            [allowed |-> "false", message |-> Msg("ElementDisallowed", "", 0, Null),
             threw |-> FALSE, pushed |-> <<>>]
      [] typ = "number" /\ CountIs(n, config) ->
            [allowed |-> "true", message |-> EmptyMsg, threw |-> FALSE, pushed |-> <<>>]
      [] typ = "number" /\ ~CountIs(n, config) ->
            [allowed |-> "false", message |-> Msg("FoundExpected", selector, n, config),
             threw |-> FALSE, pushed |-> <<>>]
      [] typ \notin {"boolean", "number"} /\ IsNumberPair(config)
            /\ InRange(n, config) ->
            [allowed |-> "true", message |-> EmptyMsg, threw |-> FALSE, pushed |-> <<>>]
      [] typ \notin {"boolean", "number"} /\ IsNumberPair(config)
            /\ ~InRange(n, config) ->
            [allowed |-> "null", message |-> EmptyMsg, threw |-> FALSE,
             pushed |-> <<Result(NoElm, Msg("FoundExpectedBetween", selector, n, config))>>]
      [] OTHER ->
            [allowed |-> "null", message |-> Msg("UnknownConfigType", typ, 0, config),
             threw |-> TRUE, pushed |-> <<>>]

\* executeRule(selector, config, $): the RuleExecution, or the thrown string
executeRule(selector, config, d) ==
    LET found == Find(d, selector)
        matches == [i \in 1..Len(found) |-> Result(found[i], EmptyMsg)]
        sw == ExecuteSwitch(selector, config, Len(matches))
    IN  [threw |-> sw.threw,
         thrown |-> sw.message,
         allowed |-> IF sw.allowed = "true" /\ ~sw.threw THEN matches ELSE <<>>,
         disallowed |->
            IF sw.threw THEN <<>>
            ELSE IF sw.allowed = "false"
                 THEN sw.pushed \o [i \in 1..Len(matches) |->
                                        Result(matches[i].elm, sw.message)]
                 ELSE sw.pushed]

Diag(severity, message, elm) == [severity |-> severity, message |-> message, elm |-> elm]

\* variant of CatchClause: the thrown value reported through reporter.exception
CatchClauseAsException(clause, ex) ==
    IF ex.threw
    THEN <<Diag("exception", Msg("FailedToLint", clause.key, 0, ex.thrown.raw), NoElm)>>
    ELSE <<>>

\* the catch block of ElmRule: executeRule throws a string, never an Error,
\* so `e instanceof Error` is false and the warn branch runs
CatchClause(clause, ex) ==
    IF ex.threw
    THEN <<Diag("warning", Msg("FailedToLint", clause.key, 0, ex.thrown.raw), NoElm)>>
    ELSE <<>>

\* the element handles of a sequence of results
ResultElms(results) == {results[j].elm : j \in 1..Len(results)}

\* the elements allowed by any execution
AllowedElms(executions) ==
    Flatten([i \in 1..Len(executions) |->
                [j \in 1..Len(executions[i].allowed) |-> executions[i].allowed[j].elm]])

\* variant of Disallowed: each execution filtered by its own allowed list only
DisallowedOwnExecution(executions) ==
    Flatten([i \in 1..Len(executions) |->
                SelectSeq(executions[i].disallowed,
                          LAMBDA result : result.elm \notin ResultElms(executions[i].allowed))])

\* the disallowed results whose element is allowed by no execution
Disallowed(executions) ==
    LET allowedElms == Range(AllowedElms(executions)) IN
    Flatten([i \in 1..Len(executions) |->
                SelectSeq(executions[i].disallowed,
                          LAMBDA result : result.elm \notin allowedElms)])

\* variant of ElmRule: the try/catch around the whole map, so a throwing
\* clause ends the instance
ElmRuleAbortOnThrow(config, d) ==
    LET all == [i \in 1..Len(config) |-> executeRule(config[i].key, config[i].val, d)]
        caught == Flatten([i \in 1..Len(config) |-> CatchClause(config[i], all[i])])
        disallowed == Disallowed(all)
    IN  [threw |-> FALSE,
         thrown |-> EmptyMsg,
         diags |-> IF caught # <<>> THEN <<Head(caught)>>
                   ELSE [i \in 1..Len(disallowed) |->
                            Diag("error", disallowed[i].message, disallowed[i].elm)]]

\* ElmRule(reporter, $, ast): the diagnostics it reports, in order
ElmRule(config, d) ==
    LET all == [i \in 1..Len(config) |-> executeRule(config[i].key, config[i].val, d)]
        caught == Flatten([i \in 1..Len(config) |-> CatchClause(config[i], all[i])])
        executions == SelectSeq(all, LAMBDA ex : ~ex.threw)
        disallowed == Disallowed(executions)
    IN  [threw |-> FALSE,
         thrown |-> EmptyMsg,
         diags |-> caught \o [i \in 1..Len(disallowed) |->
                                Diag("error", disallowed[i].message, disallowed[i].elm)]]

(***************************************************************************)
(* src/src/rules/examples/identity.js                                      *)
(***************************************************************************)
\* JavaScript null, as the value of config.method
JsNull == "<null>"

\* the operations of the Reporter, and the severity each one appends
ReporterOps == {"warn", "error", "exception"}

Severity(method) ==
    CASE method = "warn" -> "warning"
      [] method = "error" -> "error"
      [] method = "exception" -> "exception"

\* if (config.method)
Truthy(method) == method \notin {JsNull, ""}

\* variant of IdentityRule: without the `if (config.method)` guard
IdentityRuleUnguarded(method, message) ==
    IF method \in ReporterOps
    THEN [threw |-> FALSE, thrown |-> EmptyMsg,
          diags |-> <<Diag(Severity(method), Msg("Identity", message, 0, Null), NoElm)>>]
    ELSE [threw |-> TRUE, thrown |-> Msg("TypeError", method, 0, Null), diags |-> <<>>]

\* variant of IdentityRule: guarded by `if (reporter[config.method])`
IdentityRuleSilent(method, message) ==
    IF method \in ReporterOps
    THEN [threw |-> FALSE, thrown |-> EmptyMsg,
          diags |-> <<Diag(Severity(method), Msg("Identity", message, 0, Null), NoElm)>>]
    ELSE [threw |-> FALSE, thrown |-> EmptyMsg, diags |-> <<>>]

\* IdentityRule(reporter): reporter[config.method](config.message), which
\* throws a TypeError when the Reporter has no such operation
IdentityRule(method, message) ==
    IF ~Truthy(method)
    THEN [threw |-> FALSE, thrown |-> EmptyMsg, diags |-> <<>>]
    ELSE IF method \in ReporterOps
    THEN [threw |-> FALSE, thrown |-> EmptyMsg,
          diags |-> <<Diag(Severity(method), Msg("Identity", message, 0, Null), NoElm)>>]
    ELSE [threw |-> TRUE, thrown |-> Msg("TypeError", method, 0, Null), diags |-> <<>>]

(***************************************************************************)
(* The attr rule (section 4.1 of the specification; its tests are          *)
(* src/unnamed/part_000).                                                  *)
(***************************************************************************)
ReservedKeys == {"rule::selector", "rule::whitelist"}

Keys(config) == {config[i].key : i \in 1..Len(config)}

Lookup(config, key) == config[CHOOSE i \in 1..Len(config) : config[i].key = key].val

\* the selector override, "*" by default
AttrSelector(config) ==
    IF "rule::selector" \in Keys(config) /\ Lookup(config, "rule::selector").t = "string"
    THEN Lookup(config, "rule::selector").strs[1]
    ELSE "*"

\* the whitelist-mode flag, blacklist mode by default
AttrWhitelist(config) ==
    /\ "rule::whitelist" \in Keys(config)
    /\ Lookup(config, "rule::whitelist").t = "boolean"
    /\ Lookup(config, "rule::whitelist").b

\* variant of AttrClauses: the reserved keys taken as attribute names
AttrClausesUnreserved(config) == config

\* the clauses that name attributes: every key but the reserved ones
AttrClauses(config) == SelectSeq(config, LAMBDA c : c.key \notin ReservedKeys)

GetAttribute(e, name) == IF name \in DOMAIN e.attrs THEN e.attrs[name] ELSE Absent

\* does the element fail the requirement on the attribute?
AttrDisallows(e, name, req) ==
    LET value == GetAttribute(e, name) IN
    CASE req.t = "boolean" /\ req.b -> value = Absent
      [] req.t = "boolean" /\ ~req.b -> value # Absent
      [] req.t = "string" -> value = Absent \/ value # req.strs[1]
      [] req.t = "array" -> value = Absent \/ value \notin Range(req.strs)
      [] OTHER -> FALSE

AttrOrder == <<"role", "id">>

\* the diagnostics of one matched element: one per failed key, then in
\* whitelist mode one per attribute that is not a key of the configuration
AttrElmDiags(config, d, h) ==
    LET clauses == AttrClauses(config)
        failed == SelectSeq(clauses, LAMBDA c : AttrDisallows(d[h], c.key, c.val))
        unexpected == SelectSeq(AttrOrder,
                                LAMBDA n : /\ GetAttribute(d[h], n) # Absent
                                           /\ n \notin Keys(clauses))
    IN  [i \in 1..Len(failed) |->
            Diag("error", Msg("AttrFailed", failed[i].key, 0, failed[i].val), h)]
        \o (IF AttrWhitelist(config)
            THEN [i \in 1..Len(unexpected) |->
                    Diag("error", Msg("AttrUnexpected", unexpected[i], 0, Null), h)]
            ELSE <<>>)

AttrRule(config, d) ==
    LET found == Find(d, AttrSelector(config)) IN
    [threw |-> FALSE, thrown |-> EmptyMsg,
     diags |-> Flatten([i \in 1..Len(found) |-> AttrElmDiags(config, d, found[i])])]

(***************************************************************************)
(* Rule instances, the Reporter and the Lint Process (sections 4.3, 4.4).  *)
(***************************************************************************)
ElmInstance(config) == [type |-> "elm", config |-> config, method |-> JsNull, message |-> ""]
AttrInstance(config) == [type |-> "attr", config |-> config, method |-> JsNull, message |-> ""]
IdentityInstance(method, message) ==
    [type |-> "identity", config |-> <<>>, method |-> method, message |-> message]

\* the generated evaluation function of a rule instance, run on the document
RunRule(rule, d) ==
    CASE rule.type = "elm" -> ElmRule(rule.config, d)
      [] rule.type = "attr" -> AttrRule(rule.config, d)
      [] rule.type = "identity" -> IdentityRule(rule.method, rule.message)

\* the rule-instance boundary: a thrown error becomes an exception diagnostic
InstanceDiags(rule, d) ==
    LET out == RunRule(rule, d) IN
    out.diags \o (IF out.threw THEN <<Diag("exception", out.thrown, NoElm)>> ELSE <<>>)

\* Reporter: the diagnostics of instance i, appended in order
ReporterAppend(rep, i, diags) ==
    rep \o [k \in 1..Len(diags) |->
                [rule |-> i, severity |-> diags[k].severity,
                 message |-> diags[k].message, elm |-> diags[k].elm]]

HasSeverity(rep, sev) == \E k \in 1..Len(rep) : rep[k].severity = sev

\* the verdict: exceptions count toward error
calculateState(rep) ==
    IF HasSeverity(rep, "error") \/ HasSeverity(rep, "exception") THEN "error"
    ELSE IF HasSeverity(rep, "warning") THEN "warning"
    ELSE "success"

\* variant of AllCompleted: one completion is enough
AnyCompleted(st) == \E i \in DOMAIN st : st[i] = "completed"

AllCompleted(st) == \A i \in DOMAIN st : st[i] = "completed"

\* a completion signal has been received: leave pending and emit 'done' when
\* it was the last one
OnRuleFinish(st, rep) ==
    IF AllCompleted(st)
    THEN /\ state' = calculateState(rep)
         /\ doneCount' = doneCount + 1
         /\ transitions' = transitions + 1
    ELSE UNCHANGED <<state, doneCount, transitions>>

\* the process invokes the evaluation function of instance i; the instance
\* signals completion at once, or suspends and signals it later
Invoke(i) ==
    /\ status[i] = "idle"
    /\ \A j \in 1..(i - 1) : status[j] # "idle"
    /\ reporter' = ReporterAppend(reporter, i, InstanceDiags(rules[i], doc))
    /\ \E suspends \in BOOLEAN :
          /\ status' = [status EXCEPT ![i] = IF suspends THEN "suspended" ELSE "completed"]
          /\ completions' = IF suspends THEN completions ELSE Append(completions, i)
          /\ OnRuleFinish(status', reporter')
    /\ UNCHANGED <<doc, rules>>

\* a suspended instance signals completion
Complete(i) ==
    /\ status[i] = "suspended"
    /\ status' = [status EXCEPT ![i] = "completed"]
    /\ completions' = Append(completions, i)
    /\ OnRuleFinish(status', reporter)
    /\ UNCHANGED <<doc, rules, reporter>>

InvokeNext == \E i \in 1..Len(rules) : Invoke(i)

CompleteAny == \E i \in 1..Len(rules) : Complete(i)

Next == InvokeNext \/ CompleteAny

(***************************************************************************)
(* Inputs.                                                                 *)
(***************************************************************************)
\* `top` <b/> elements, then (when kids >= 0) one <a> with `kids` <b/> children
ElmDoc(top, kids) ==
    [h \in 1..(top + (IF kids >= 0 THEN kids + 1 ELSE 0)) |->
        IF h <= top THEN Elm("b", 0, NoAttrs)
        ELSE IF h = top + 1 THEN Elm("a", 0, NoAttrs)
        ELSE Elm("b", top + 1, NoAttrs)]

ElmDocs == {ElmDoc(top, kids) : top \in 0..MaxTop, kids \in (-1)..MaxKids}

Missing == [t |-> "missing", b |-> FALSE, nums |-> <<>>, strs |-> <<>>]

ElmValues ==
    {Bool(TRUE), Bool(FALSE)}
    \cup {Num(k) : k \in 0..MaxCount}
    \cup {NumArray(<<lo, hi>>) : lo \in 1..MaxCount, hi \in 1..MaxCount}
    \cup {Str("2"), NumArray(<<1>>)}

ElmSelectors == <<"b", "a", "a > b">>

\* an object whose keys, in insertion order, are the selectors given a value
ConfigOf(keys, choice) ==
    LET present == SelectSeq(Upto(Len(keys)), LAMBDA i : choice[i] # Missing)
    IN  [i \in 1..Len(present) |-> [key |-> keys[present[i]], val |-> choice[present[i]]]]

ElmConfigs ==
    {ConfigOf(ElmSelectors, choice) :
        choice \in [1..Len(ElmSelectors) -> ElmValues \cup {Missing}]}

InitProcess(d, rs) ==
    /\ doc = d
    /\ rules = rs
    /\ reporter = <<>>
    /\ status = [i \in 1..Len(rs) |-> "idle"]
    /\ completions = <<>>
    /\ state = "pending"
    /\ doneCount = 0
    /\ transitions = 0

\* one elm rule instance, any configuration, any document
InitElm == \E d \in ElmDocs, c \in ElmConfigs : InitProcess(d, <<ElmInstance(c)>>)

SpecElm == InitElm /\ [][Next]_vars

\* <svg> with `groups` <g> children; attrs gives the attributes of each
AttrDoc(attrs) ==
    [h \in 1..Len(attrs) |-> Elm(IF h = 1 THEN "svg" ELSE "g", IF h = 1 THEN 0 ELSE 1, attrs[h])]

AttrSets == {[role |-> r, id |-> i] : r \in {Absent, "img", "foo"}, i \in {Absent, "foo"}}

AttrDocs == UNION {{AttrDoc(attrs) : attrs \in [1..(n + 1) -> AttrSets]} : n \in 0..MaxGroups}

AttrKeys == <<"rule::selector", "rule::whitelist", "role", "id">>

AttrValues(key) ==
    CASE key = "rule::selector" -> {Missing, Str("svg"), Str("g")}
      [] key = "rule::whitelist" -> {Missing, Bool(TRUE), Bool(FALSE)}
      [] key = "role" -> {Missing, Bool(TRUE), Bool(FALSE), Str("img"),
                          StrArray(<<"img", "progressbar">>)}
      [] key = "id" -> {Missing, Bool(TRUE), Bool(FALSE)}

AttrConfigs ==
    {ConfigOf(AttrKeys, choice) :
        choice \in {ch \in [1..Len(AttrKeys) -> UNION {AttrValues(AttrKeys[k]) : k \in 1..Len(AttrKeys)}] :
                        \A k \in 1..Len(AttrKeys) : ch[k] \in AttrValues(AttrKeys[k])}}

\* one attr rule instance, any configuration, any document
InitAttr == \E d \in AttrDocs, c \in AttrConfigs : InitProcess(d, <<AttrInstance(c)>>)

SpecAttr == InitAttr /\ [][Next]_vars

\* the rule instances a process is configured with
RuleMenu ==
    {IdentityInstance(m, "message") : m \in {"error", "warn", "log", JsNull}}
    \cup {ElmInstance(<<[key |-> "b", val |-> Bool(FALSE)], [key |-> "a", val |-> Bool(TRUE)]>>),
          AttrInstance(<<[key |-> "id", val |-> Bool(TRUE)]>>)}

ProcessDocs == {ElmDoc(0, -1), ElmDoc(1, 0)}

RuleLists == UNION {[1..n -> RuleMenu] : n \in 1..MaxRules}

Init == \E d \in ProcessDocs, rs \in RuleLists : InitProcess(d, rs)

Spec == Init /\ [][Next]_vars

\* processes that mix a throwing pass-through rule with rules that report
ThrowMenu ==
    {r \in RuleMenu : r.type = "elm" \/ r.method \in {"log", "warn"}}

ThrowLists ==
    {rs \in UNION {[1..n -> ThrowMenu] : n \in 1..MaxRules} :
        \E i \in 1..Len(rs) : rs[i].method = "log"}

InitThrow == \E rs \in ThrowLists : InitProcess(ElmDoc(1, 0), rs)

\* every invocation returns or throws, and the event loop delivers every
\* completion signal
FairSpec == InitThrow /\ [][Next]_vars /\ WF_vars(Next)

(***************************************************************************)
(* Properties of the elm rule, checked under SpecElm.                      *)
(***************************************************************************)
\* the requirement shapes the elm rule recognises
Recognised(v) ==
    \/ v.t \in {"boolean", "number"}
    \/ v.t = "array" /\ Len(v.nums) = 2 /\ v.strs = <<>>

Invoked(i) == status[i] # "idle"

\* the elm rule instances of the process that have been invoked
ElmInvoked == {i \in 1..Len(rules) : rules[i].type = "elm" /\ Invoked(i)}

\* the diagnostics instance i has reported, in order
ReportedBy(i) == SelectSeq(reporter, LAMBDA g : g.rule = i)

\* the diagnostics of instance i that name the selector
Naming(i, selector) == SelectSeq(ReportedBy(i), LAMBDA g : g.message.text = selector)

\* the element handles instance i reported through reporter.error
ErrorElms(i) ==
    {reporter[k].elm : k \in {k \in 1..Len(reporter) :
                                reporter[k].rule = i /\ reporter[k].severity = "error"}}

ClauseRun(i, c) == executeRule(rules[i].config[c].key, rules[i].config[c].val, doc)

ClauseCount(i, c) == Len(Find(doc, rules[i].config[c].key))

\* C1: an element in the allowed set of some clause of an elm rule instance
\* is never reported by that instance through reporter.error, even when
\* another clause of the instance disallows it.
C1_AllowedNeverReported ==
    \A i \in 1..Len(rules) :
        rules[i].type = "elm" =>
            \A c \in 1..Len(rules[i].config) :
                ResultElms(ClauseRun(i, c).allowed) \cap ErrorElms(i) = {}

\* an invoked instance where one clause allows an element another disallows
C1_Witness ==
    \E i \in ElmInvoked : \E c1, c2 \in 1..Len(rules[i].config) :
        /\ ResultElms(ClauseRun(i, c1).allowed) \cap ResultElms(ClauseRun(i, c2).disallowed) # {}
        /\ ErrorElms(i) # {}

\* C2 (as stated): a clause whose requirement is not a boolean, a number or
\* a pair of numbers appends exactly one diagnostic, of severity exception,
\* that names the clause's selector and the raw configuration value.
C2_UnknownShapeIsException ==
    \A i \in ElmInvoked : \A c \in 1..Len(rules[i].config) :
        ~Recognised(rules[i].config[c].val) =>
            LET named == Naming(i, rules[i].config[c].key) IN
            /\ Len(named) = 1
            /\ named[1].severity = "exception"
            /\ named[1].message.raw = rules[i].config[c].val

\* C2 (amended): such a clause appends exactly one diagnostic, of severity
\* warning, that names the clause's selector and the raw configuration value.
C2_UnknownShapeIsWarning ==
    \A i \in ElmInvoked : \A c \in 1..Len(rules[i].config) :
        ~Recognised(rules[i].config[c].val) =>
            LET named == Naming(i, rules[i].config[c].key) IN
            /\ Len(named) = 1
            /\ named[1].severity = "warning"
            /\ named[1].message.raw = rules[i].config[c].val

\* an invoked instance with a clause of unrecognised shape
C2_Witness ==
    \E i \in ElmInvoked : \E c \in 1..Len(rules[i].config) :
        /\ ~Recognised(rules[i].config[c].val)
        /\ Len(reporter) > 0

\* C3: an exact-count clause N > 0 whose selector matches nothing produces a
\* node-less disallowed entry, so the instance reports an error and the lint
\* does not end in success.
C3_ZeroMatchesOfPositiveCountFails ==
    \A i \in ElmInvoked : \A c \in 1..Len(rules[i].config) :
        LET v == rules[i].config[c].val IN
        (v.t = "number" /\ v.nums[1] > 0 /\ ClauseCount(i, c) = 0) =>
            /\ \E j \in 1..Len(ClauseRun(i, c).disallowed) :
                    ClauseRun(i, c).disallowed[j].elm = NoElm
            /\ \E k \in 1..Len(reporter) :
                    reporter[k].rule = i /\ reporter[k].severity = "error"
            /\ state # "success"

RangeClauseAt(i, c, offLo, offHi) ==
    LET v == rules[i].config[c].val IN
    /\ v.t = "array" /\ Len(v.nums) = 2 /\ v.strs = <<>>
    /\ v.nums[1] < v.nums[2]
    /\ \/ ClauseCount(i, c) = v.nums[1] + offLo
       \/ ClauseCount(i, c) = v.nums[2] + offHi

C8Doc == ElmDoc(2, 2)

\* {"b": 2, "a > b": true}
C8Config == <<[key |-> "b", val |-> Num(2)], [key |-> "a > b", val |-> Bool(TRUE)]>>

C8Case == doc = C8Doc /\ Len(rules) = 1 /\ rules[1] = ElmInstance(C8Config)

\* C8: linting <b/><b/><a><b/><b/></a> with {"b": 2, "a > b": true} fails:
\* 'b' disallows every element it matched, only the elements 'a > b' allows
\* are exempted, and an error remains for a 'b' that 'a > b' does not match.
C8_DocumentedExampleFails ==
    (C8Case /\ Invoked(1)) =>
        /\ ResultElms(ClauseRun(1, 1).disallowed) = Range(Find(doc, "b"))
        /\ ErrorElms(1) = Range(Find(doc, "b")) \ Range(Find(doc, "a > b"))
        /\ ErrorElms(1) # {}
        /\ state \in {"pending", "error"}

C8_Witness == C8Case /\ state = "error"

\* C9: a clause whose evaluation throws does not abort the instance: the
\* errors reported are those the instance reports when the throwing clauses
\* are absent from the configuration.
C9_ThrowingClauseIsolated ==
    \A i \in ElmInvoked :
        LET others == SelectSeq(rules[i].config, LAMBDA cl : Recognised(cl.val))
        IN  SelectSeq(ReportedBy(i), LAMBDA g : g.severity = "error")
                = ReporterAppend(<<>>, i, ElmRule(others, doc).diags)

\* an invoked instance with a throwing clause whose siblings report errors
\* and exempt a disallowed element
C9_Witness ==
    \E i \in ElmInvoked : \E c, c1, c2 \in 1..Len(rules[i].config) :
        /\ ~Recognised(rules[i].config[c].val)
        /\ ResultElms(ClauseRun(i, c1).allowed) \cap ResultElms(ClauseRun(i, c2).disallowed) # {}
        /\ ErrorElms(i) # {}

(***************************************************************************)
(* Properties of the Lint Process, checked under Spec and FairSpec.        *)
(***************************************************************************)
Terminal == state # "pending"

\* C5: the process leaves pending exactly once, when and only when every
\* configured rule instance has signalled completion (at once or after
\* suspending, in any order), and 'done' is delivered exactly once, with
\* that transition.
C5_LeavesPendingOnce ==
    /\ Terminal <=> Range(completions) = 1..Len(rules)
    /\ Len(completions) = Cardinality(Range(completions))
    /\ transitions = IF Terminal THEN 1 ELSE 0
    /\ doneCount = transitions

\* a finished process where the first instance suspended and signalled
\* completion last, after instances that completed at once
C5_Witness ==
    /\ Terminal
    /\ doneCount = 1
    /\ Len(rules) > 2
    /\ completions[Len(completions)] = 1
    /\ completions[1] = 3

IsThrower(i) ==
    /\ rules[i].type = "identity"
    /\ rules[i].method \notin {JsNull, "", "warn", "error", "exception"}

\* the process has finished in error, every thrower has an exception
\* diagnostic and every other instance has contributed its own diagnostics
FinishedDespiteThrow ==
    /\ state = "error"
    /\ doneCount = 1
    /\ \A i \in 1..Len(rules) :
          IF IsThrower(i)
          THEN /\ Len(ReportedBy(i)) = 1
               /\ ReportedBy(i)[1].severity = "exception"
          ELSE ReportedBy(i) = ReporterAppend(<<>>, i, RunRule(rules[i], doc).diags)

\* C7: a process in which some instance throws synchronously still reaches
\* a terminal state and emits 'done'; the thrown error is an exception
\* diagnostic, the terminal state is error and the other instances still
\* contribute their diagnostics.
C7_ThrowingInstanceTerminates ==
    (\E i \in 1..Len(rules) : IsThrower(i)) ~> FinishedDespiteThrow

\* a finished process where a thrower ran between instances that reported
C7_Witness ==
    /\ FinishedDespiteThrow
    /\ Len(rules) > 2
    /\ IsThrower(2)
    /\ Len(ReportedBy(1)) > 0
    /\ Len(ReportedBy(3)) > 0

(***************************************************************************)
(* Properties of the attr rule, checked under SpecAttr.                    *)
(***************************************************************************)
\* the attributes an element carries
Carried(h) == {n \in DOMAIN doc[h].attrs : doc[h].attrs[n] # Absent}

\* C10: in whitelist mode the lint fails whenever a selected element
\* carries an attribute that is not a key of the configuration, and the
\* reserved keys are never treated as attribute names; a whitelist that
\* lists no attribute succeeds exactly when no selected element has an
\* attribute; in blacklist mode no unconfigured attribute causes failure.
C10_WhitelistAndBlacklist ==
    (Terminal /\ Len(rules) = 1 /\ rules[1].type = "attr") =>
        LET config == rules[1].config
            whitelist == \E c \in 1..Len(config) :
                            config[c].key = "rule::whitelist" /\ config[c].val = Bool(TRUE)
            override == {config[c].val.strs[1] :
                            c \in {c \in 1..Len(config) : config[c].key = "rule::selector"}}
            selected == {h \in 1..Len(doc) : \A tag \in override : doc[h].tag = tag}
            configured == {config[c].key : c \in 1..Len(config)}
                            \ {"rule::selector", "rule::whitelist"}
            fails(h, c) ==
                LET value == doc[h].attrs[config[c].key]
                    req == config[c].val
                IN  CASE req = Bool(TRUE) -> value = Absent
                      [] req = Bool(FALSE) -> value # Absent
                      [] OTHER -> value \notin Range(req.strs)
        IN  /\ whitelist /\ (\E h \in selected : Carried(h) \ configured # {})
                => state = "error"
            /\ \A k \in 1..Len(reporter) :
                    reporter[k].message.text \notin {"rule::selector", "rule::whitelist"}
            /\ whitelist /\ configured = {}
                => (state = "success" <=> \A h \in selected : Carried(h) = {})
            /\ ~whitelist
                => (state = "success" <=>
                        \A h \in selected : \A c \in 1..Len(config) :
                            config[c].key \in configured => ~fails(h, c))

\* a finished whitelist run that fails only because a selected element
\* carries an attribute the configuration does not name
C10_Witness ==
    /\ Terminal /\ Len(rules) = 1 /\ rules[1].type = "attr"
    /\ "rule::selector" \in Keys(rules[1].config)
    /\ "rule::whitelist" \in Keys(rules[1].config)
    /\ "role" \in Keys(rules[1].config)
    /\ state = "error"
    /\ \A k \in 1..Len(reporter) :
            reporter[k].message.kind = "AttrUnexpected" /\ reporter[k].message.text = "id"

====
